---- MODULE Spec2Model ----
(* A model of pyscpibase: the SCPIProperty descriptor, the Instrument base  *)
(* class, the SubSystem base class (src/instrument.py) and the RTO6         *)
(* oscilloscope with its Channel, Math and FFT subsystems (src/rto6.py).    *)
(*                                                                          *)
(* A Python string is a sequence of pieces whose concatenation is the       *)
(* string; a command template keeps its literal pieces, its {name}          *)
(* placeholders and its "?" query markers apart.  An instance __dict__ is a *)
(* function from attribute names to values.  The VISA resource and resource *)
(* manager are external: the model records every call made on them.  A     *)
(* resource that was opened accepts write and query (a recording stub);     *)
(* a resource that failed to open is absent from the __dict__, and the      *)
(* calls that need it end in the RecursionError of Instrument.__getattr__.  *)
EXTENDS Integers, Sequences, FiniteSets, TLC

VARIABLES phase, idict, sub, last, nops

vars == <<phase, idict, sub, last, nops>>

(* ------------------------------ bounds --------------------------------- *)

\* number of operations called on a constructed instrument in one behaviour
MaxOps == 2

\* number of keyword arguments a caller passes to setup()
MaxKw == 1

(* ------------------------- program constants --------------------------- *)

NumChannels == 4
NumMath == 8
NumFFT == 8

(* ------------------------------ values --------------------------------- *)

StrV(x) == [t |-> "str", s |-> x, n |-> 0]
IntV(x) == [t |-> "int", s |-> "", n |-> x]
ObjV(x) == [t |-> "obj", s |-> x, n |-> 0]
NoneV == [t |-> "none", s |-> "None", n |-> 0]

\* str(value), as used by the f-string of SCPIProperty.__set__
Str(v) == IF v.t = "int" THEN ToString(v.n) ELSE v.s

\* d[key] = value on a __dict__
DictSet(d, key, value) ==
    [k \in (DOMAIN d) \cup {key} |-> IF k = key THEN value ELSE d[k]]

(* --------------------------- command templates ------------------------- *)

Lit(x) == [k |-> "lit", x |-> x]
Ph(x) == [k |-> "ph", x |-> x]
QM == Lit("?")
None == <<>>

\* str.replace("?", ""): every query marker is removed, wherever it stands
RemoveMarker(tpl) == SelectSeq(tpl, LAMBDA tok : tok # QM)

\* str.format(**vars(instance)) raises KeyError for a missing name
FormatFails(tpl, d) ==
    \E i \in DOMAIN tpl : tpl[i].k = "ph" /\ tpl[i].x \notin DOMAIN d

\* the name the KeyError carries: the first placeholder that is missing
MissingName(tpl, d) ==
    LET bad == {i \in DOMAIN tpl : tpl[i].k = "ph" /\ tpl[i].x \notin DOMAIN d}
    IN tpl[CHOOSE i \in bad : \A j \in bad : i <= j].x

Format(tpl, d) ==
    [i \in DOMAIN tpl |-> IF tpl[i].k = "ph" THEN Str(d[tpl[i].x]) ELSE tpl[i].x]

\* SCPIProperty.__init__ that takes the query template as the write template
SCPIProperty_KeepsMarker(get_cmd, set_cmd) ==
    [get_cmd |-> get_cmd,
     set_cmd |-> IF set_cmd # None THEN set_cmd ELSE get_cmd,
     typecast |-> "str"]

\* SCPIProperty.__init__
SCPIProperty(get_cmd, set_cmd) ==
    [get_cmd |-> get_cmd,
     set_cmd |-> IF set_cmd # None THEN set_cmd ELSE RemoveMarker(get_cmd),
     typecast |-> "str"]

\* the class attributes that are descriptors, per class
InstrumentProps ==
    [identity |-> SCPIProperty(<<Lit("*IDN"), QM>>, None),
     complete |-> SCPIProperty(<<Lit("*OPC"), QM>>, None)]

RTO6Props ==
    [format |-> SCPIProperty(<<Lit("FORM"), QM>>, None),
     update_display |-> SCPIProperty(<<Lit("SYST:DISP:UPD"), QM>>, None)]
    @@ InstrumentProps

ChannelProps ==
    [status |-> SCPIProperty(<<Lit("CHAN"), Ph("suffix"), Lit(":STAT"), QM>>, None),
     coupling |-> SCPIProperty(<<Lit("CHAN"), Ph("suffix"), Lit(":COUP"), QM>>, None)]

MathProps ==
    [status |-> SCPIProperty(<<Lit("CALC:MATH"), Ph("suffix"), Lit(":STAT"), QM>>, None),
     expression |-> SCPIProperty(<<Lit("CALC:MATH"), Ph("suffix"), Lit(":EXPR"), QM>>, None),
     range |-> SCPIProperty(<<Lit("CALC:MATH"), Ph("suffix"), Lit(":VERT:RANG"), QM>>, None),
     header |-> SCPIProperty(<<Lit("CALC:MATH"), Ph("suffix"), Lit(":DATA:HEAD"), QM>>, None)]

FFTProps ==
    [type |-> SCPIProperty(<<Lit("CALC:MATH"), Ph("suffix"), Lit(":FFT:TYPE"), QM>>, None),
     logscale |-> SCPIProperty(<<Lit("CALC:MATH"), Ph("suffix"), Lit(":FFT:LOGS"), QM>>, None),
     window |-> SCPIProperty(<<Lit("CALC:MATH"), Ph("suffix"), Lit(":FFT:WIND:TYPE"), QM>>, None),
     start |-> SCPIProperty(<<Lit("CALC:MATH"), Ph("suffix"), Lit(":FFT:START"), QM>>, None),
     stop |-> SCPIProperty(<<Lit("CALC:MATH"), Ph("suffix"), Lit(":FFT:STOP"), QM>>, None),
     bandwidth |-> SCPIProperty(<<Lit("CALC:MATH"), Ph("suffix"), Lit(":FFT:BAND"), QM>>, None),
     level |-> SCPIProperty(<<Lit("CALC:MATH"), Ph("suffix"), Lit(":FFT:MAGN:LEV"), QM>>, None),
     count |-> SCPIProperty(<<Lit("CALC:MATH"), Ph("suffix"), Lit(":FFT:FRAM:MAXC"), QM>>, None),
     overlap |-> SCPIProperty(<<Lit("CALC:MATH"), Ph("suffix"), Lit(":FFT:FRAM:OFAC"), QM>>, None)]

Props(cls) ==
    CASE cls = "RTO6" -> RTO6Props
      [] cls = "Channel" -> ChannelProps
      [] cls = "Math" -> MathProps
      [] cls = "FFT" -> FFTProps

\* the methods the classes define (non-data class attributes)
InstrumentMethods == {"close", "setup", "reset", "clear", "wait", "single"}
SubSystemMethods(cls) == IF cls = "Math" THEN {"setup", "get_data"} ELSE {"setup"}

(* ------------------------------ objects -------------------------------- *)

Inst == [cls |-> "RTO6", idx |-> 0]

SubIds ==
    [cls : {"Channel"}, idx : 0 .. NumChannels - 1]
    \cup [cls : {"Math"}, idx : 0 .. NumMath - 1]
    \cup [cls : {"FFT"}, idx : 0 .. NumFFT - 1]

\* the exceptions of the model are all subclasses of Exception
ExceptionClasses ==
    {"AttributeError", "KeyError", "TypeError", "RecursionError", "VisaIOError"}

\* the outcome of a piece of code: how it ended, the message of the
\* exception, the calls it made on the transport, the __dict__ of the
\* object it ran on, and the value it returned
Out(res, emsg, sent, d, ret) ==
    [res |-> res, emsg |-> emsg, sent |-> sent, d |-> d, ret |-> ret]

Call(on, op, msg) == [on |-> on, op |-> op, msg |-> msg]

(* --------------------- the transport (VISAInterface) ------------------- *)

\* what the VISA resource exposes: write and query of the protocol, the
\* binary query Math.get_data uses, and close
ResourceCallables == {"write", "query", "query_binary_values", "close"}

\* Instrument.__getattr__: getattr(self._resource, name).  Without a
\* _resource in the __dict__, self._resource enters __getattr__ again and
\* the recursion ends in RecursionError.
InstrumentGetattr(d, name) ==
    IF "_resource" \notin DOMAIN d THEN "RecursionError"
    ELSE IF name \in ResourceCallables THEN "wrapper"
    ELSE "AttributeError"


\* name(msg) looked up on an Instrument and called: write, query and the
\* like are no members of the class, so an instance attribute of that name
\* wins (a plain value, not callable) and otherwise __getattr__ hands out
\* the logging wrapper around the resource's method
InstrumentCall(idict_, name, msg, ret) ==
    IF name \in DOMAIN idict_
    THEN Out("TypeError", <<Str(idict_[name]), " is not callable">>, <<>>, idict_, NoneV)
    ELSE LET a == InstrumentGetattr(idict_, name)
         IN IF a = "wrapper"
            THEN Out("ok", <<>>, <<Call("_resource", name, msg)>>, idict_, ret)
            ELSE Out(a, <<name>>, <<>>, idict_, NoneV)

\* SubSystem.__getattr__ for a callable: getattr(self.instrument, name)
SubSystemCall(d, idict_, name, msg, ret) ==
    IF name \in DOMAIN d
    THEN Out("TypeError", <<Str(d[name]), " is not callable">>, <<>>, d, NoneV)
    ELSE LET c == InstrumentCall(idict_, name, msg, ret)
         IN Out(c.res, c.emsg, c.sent, d, c.ret)

\* instance.write(...) / instance.query(...) of the descriptor
InstanceCall(inst, d, idict_, name, msg, ret) ==
    IF inst = Inst THEN InstrumentCall(d, name, msg, ret)
    ELSE SubSystemCall(d, idict_, name, msg, ret)

\* typecast(response); every descriptor of the repository keeps typecast=str
TypeCast(tc, resp) == IF tc = "str" THEN StrV(Str(resp)) ELSE resp

(* ------------------------------ SCPIProperty --------------------------- *)

\* SCPIProperty.__get__ that renders the template with the attribute values
\* the instance had when it was constructed
DescriptorGet_Cached(desc, inst, d, idict_, resp) ==
    LET d0 == [k \in DOMAIN d |-> IF k = "suffix" /\ inst # Inst
                                  THEN IntV(inst.idx + 1) ELSE d[k]]
        c == InstanceCall(inst, d, idict_, "query", Format(desc.get_cmd, d0), resp)
    IN Out(c.res, c.emsg, c.sent, d,
           IF c.res = "ok" THEN TypeCast(desc.typecast, c.ret) ELSE NoneV)

\* SCPIProperty.__get__ on an instance
DescriptorGet(desc, inst, d, idict_, resp) ==
    IF FormatFails(desc.get_cmd, d)
    THEN Out("KeyError", <<MissingName(desc.get_cmd, d)>>, <<>>, d, NoneV)
    ELSE LET c == InstanceCall(inst, d, idict_, "query", Format(desc.get_cmd, d), resp)
         IN Out(c.res, c.emsg, c.sent, d,
                IF c.res = "ok" THEN TypeCast(desc.typecast, c.ret) ELSE NoneV)

\* SCPIProperty.__set__
DescriptorSet(desc, inst, d, idict_, value) ==
    IF FormatFails(desc.set_cmd, d)
    THEN Out("KeyError", <<MissingName(desc.set_cmd, d)>>, <<>>, d, NoneV)
    ELSE LET c == InstanceCall(inst, d, idict_, "write",
                               Format(desc.set_cmd, d) \o <<" ", Str(value)>>, NoneV)
         IN Out(c.res, c.emsg, c.sent, d, NoneV)

(* ------------------------- attribute access ---------------------------- *)

\* getattr(instrument, name): data descriptor of the class, then the
\* __dict__, then the methods, then Instrument.__getattr__
InstrumentGetattribute(idict_, name, resp) ==
    IF name \in DOMAIN Props(Inst.cls)
    THEN DescriptorGet(Props(Inst.cls)[name], Inst, idict_, idict_, resp)
    ELSE IF name \in DOMAIN idict_ THEN Out("ok", <<>>, <<>>, idict_, idict_[name])
    ELSE IF name \in InstrumentMethods THEN Out("ok", <<>>, <<>>, idict_, ObjV("method"))
    ELSE LET a == InstrumentGetattr(idict_, name)
         IN IF a = "wrapper" THEN Out("ok", <<>>, <<>>, idict_, ObjV("wrapper"))
            ELSE Out(a, <<name>>, <<>>, idict_, NoneV)

\* getattr(subsystem, name); the last resort is SubSystem.__getattr__,
\* getattr(self.instrument, name)
SubSystemGetattribute(inst, d, idict_, name, resp) ==
    IF name \in DOMAIN Props(inst.cls)
    THEN DescriptorGet(Props(inst.cls)[name], inst, d, idict_, resp)
    ELSE IF name \in DOMAIN d THEN Out("ok", <<>>, <<>>, d, d[name])
    ELSE IF name \in SubSystemMethods(inst.cls) THEN Out("ok", <<>>, <<>>, d, ObjV("method"))
    ELSE LET o == InstrumentGetattribute(idict_, name, resp)
         IN Out(o.res, o.emsg, o.sent, d, o.ret)

Getattr(inst, d, idict_, name, resp) ==
    IF inst = Inst THEN InstrumentGetattribute(d, name, resp)
    ELSE SubSystemGetattribute(inst, d, idict_, name, resp)

\* setattr(obj, name, value): a data descriptor of the class takes the
\* assignment, anything else lands in the __dict__
Setattr(inst, d, idict_, name, value) ==
    IF name \in DOMAIN Props(inst.cls)
    THEN DescriptorSet(Props(inst.cls)[name], inst, d, idict_, value)
    ELSE Out("ok", <<>>, <<>>, DictSet(d, name, value), NoneV)


(* -------------------------------- setup -------------------------------- *)

Kw(key, value) == [key |-> key, value |-> value]

RECURSIVE SubSystemSetup(_, _, _, _)

\* SubSystem.setup with the existence check of Instrument.setup
SubSystemSetup_Checked(inst, d, idict_, kwargs) ==
    IF kwargs = <<>> THEN Out("ok", <<>>, <<>>, d, NoneV)
    ELSE LET key == Head(kwargs).key
             h == SubSystemGetattribute(inst, d, idict_, key, StrV("1"))
         IN IF h.res # "ok"
            THEN Out("AttributeError", <<key, " is not a valid attribute of ", inst.cls>>,
                     h.sent, d, NoneV)
            ELSE LET o == Setattr(inst, d, idict_, key, Head(kwargs).value)
                 IN IF o.res # "ok" THEN o
                    ELSE LET r == SubSystemSetup(inst, o.d, idict_, Tail(kwargs))
                         IN Out(r.res, r.emsg, h.sent \o o.sent \o r.sent, r.d, NoneV)

\* SubSystem.setup: setattr for each keyword, in the order given; an
\* exception ends the loop and keeps what was set before it
SubSystemSetup(inst, d, idict_, kwargs) ==
    IF kwargs = <<>> THEN Out("ok", <<>>, <<>>, d, NoneV)
    ELSE LET o == Setattr(inst, d, idict_, Head(kwargs).key, Head(kwargs).value)
         IN IF o.res # "ok" THEN o
            ELSE LET r == SubSystemSetup(inst, o.d, idict_, Tail(kwargs))
                 IN Out(r.res, r.emsg, o.sent \o r.sent, r.d, NoneV)

\* a call f(status='ON', **kwargs) raises TypeError when kwargs has status
DuplicateKeyword(key, kwargs) == \E i \in DOMAIN kwargs : kwargs[i].key = key

\* Channel.setup that applies its default after the caller's keywords
ChannelSetup_DefaultLast(inst, d, idict_, kwargs) ==
    SubSystemSetup(inst, d, idict_, kwargs \o <<Kw("status", StrV("ON"))>>)

\* Channel.setup: super().setup(status='ON', **kwargs)
ChannelSetup(inst, d, idict_, kwargs) ==
    IF DuplicateKeyword("status", kwargs)
    THEN Out("TypeError", <<"got multiple values for keyword argument ", "status">>,
             <<>>, d, NoneV)
    ELSE SubSystemSetup(inst, d, idict_, <<Kw("status", StrV("ON"))>> \o kwargs)

\* Math.setup: super().setup(status='ON', **kwargs)
MathSetup(inst, d, idict_, kwargs) ==
    IF DuplicateKeyword("status", kwargs)
    THEN Out("TypeError", <<"got multiple values for keyword argument ", "status">>,
             <<>>, d, NoneV)
    ELSE SubSystemSetup(inst, d, idict_, <<Kw("status", StrV("ON"))>> \o kwargs)

\* an existence check that looks the name up on the class and in the
\* __dict__ without invoking the descriptor
InstrumentHasattr_NoQuery(idict_, key) ==
    IF key \in DOMAIN Props(Inst.cls) THEN Out("ok", <<>>, <<>>, idict_, NoneV)
    ELSE InstrumentGetattribute(idict_, key, StrV("1"))

\* hasattr(self, key): getattr, with AttributeError (and nothing else)
\* turned into False
InstrumentHasattr(idict_, key) == InstrumentGetattribute(idict_, key, StrV("1"))

\* Instrument.setup without the existence check, as SubSystem.setup
InstrumentSetup_NoCheck(idict_, kwargs) == SubSystemSetup(Inst, idict_, idict_, kwargs)

\* Instrument.setup
RECURSIVE InstrumentSetup(_, _)
InstrumentSetup(idict_, kwargs) ==
    IF kwargs = <<>> THEN Out("ok", <<>>, <<>>, idict_, NoneV)
    ELSE LET key == Head(kwargs).key
             h == InstrumentHasattr(idict_, key)
         IN IF h.res = "AttributeError"
            THEN Out("AttributeError", <<key, " is not a valid attribute of ", Inst.cls>>,
                     h.sent, idict_, NoneV)
            ELSE IF h.res # "ok" THEN Out(h.res, h.emsg, h.sent, idict_, NoneV)
            ELSE LET o == Setattr(Inst, idict_, idict_, key, Head(kwargs).value)
                 IN IF o.res # "ok" THEN Out(o.res, o.emsg, h.sent \o o.sent, o.d, NoneV)
                    ELSE LET r == InstrumentSetup(o.d, Tail(kwargs))
                         IN Out(r.res, r.emsg, h.sent \o o.sent \o r.sent, r.d, NoneV)

\* obj.setup(**kwargs), by the class of obj
Setup(inst, d, idict_, kwargs) ==
    CASE inst.cls = "RTO6" -> InstrumentSetup(d, kwargs)
      [] inst.cls = "Channel" -> ChannelSetup(inst, d, idict_, kwargs)
      [] inst.cls = "Math" -> MathSetup(inst, d, idict_, kwargs)
      [] inst.cls = "FFT" -> SubSystemSetup(inst, d, idict_, kwargs)

(* --------------------------- construction ------------------------------ *)

\* "except pyvisa.Error": only the transport's own errors are caught
ExceptException_VisaOnly(e) == e = "VisaIOError"

\* "except Exception" catches every exception class of the model
ExceptException(e) == e \in ExceptionClasses

\* Instrument.__init__: a failure to open is "VisaIOError"; with no _rm in
\* the __dict__, self._rm goes through __getattr__
InstrumentInit(label, rmOpens, resOpens) ==
    LET d0 == [l \in {"label"} |-> StrV(label)]
        e1 == IF rmOpens THEN "ok" ELSE "VisaIOError"
        d1 == IF e1 = "ok" THEN DictSet(d0, "_rm", ObjV("ResourceManager")) ELSE d0
        e2 == IF "_rm" \notin DOMAIN d1 THEN InstrumentGetattr(d1, "_rm")
              ELSE IF resOpens THEN "ok" ELSE "VisaIOError"
        d2 == IF e2 = "ok" THEN DictSet(d1, "_resource", ObjV("Resource")) ELSE d1
    IN IF e1 # "ok" /\ ~ExceptException(e1) THEN Out(e1, <<>>, <<>>, d0, NoneV)
       ELSE IF e2 # "ok" /\ ~ExceptException(e2) THEN Out(e2, <<>>, <<>>, d1, NoneV)
       ELSE Out("ok", <<>>, <<>>, d2, NoneV)

\* SubSystem.__init__
SubSystemInit(suffix) == [instrument |-> ObjV("Instrument"), suffix |-> IntV(suffix)]

\* the three list comprehensions of RTO6.__init__
RTO6SubSystems == [id \in SubIds |-> SubSystemInit(id.idx + 1)]

\* RTO6.__init__
RTO6Init(rmOpens, resOpens) ==
    LET o == InstrumentInit("RTO6", rmOpens, resOpens)
    IN IF o.res # "ok" THEN [o |-> o, subs |-> <<>>]
       ELSE [o |-> Out("ok", <<>>, <<>>,
                       DictSet(DictSet(DictSet(o.d, "channel", ObjV("list")),
                                       "math", ObjV("list")), "fft", ObjV("list")),
                       NoneV),
             subs |-> RTO6SubSystems]

(* -------------------------------- close -------------------------------- *)

\* Instrument.close with both releases in one try block
InstrumentClose_OneTry(idict_, resRaises, rmRaises) ==
    LET a1 == IF "_resource" \in DOMAIN idict_ THEN "ok" ELSE InstrumentGetattr(idict_, "_resource")
        s1 == IF a1 = "ok" THEN <<Call("_resource", "close", <<>>)>> ELSE <<>>
        e1 == IF a1 # "ok" THEN a1 ELSE IF resRaises THEN "VisaIOError" ELSE "ok"
        s2 == IF e1 = "ok" /\ "_rm" \in DOMAIN idict_
              THEN <<Call("_rm", "close", <<>>)>> ELSE <<>>
    IN Out("ok", <<>>, s1 \o s2, idict_, NoneV)

\* Instrument.close: two try blocks, each with "except Exception"
InstrumentClose(idict_, resRaises, rmRaises) ==
    LET a1 == IF "_resource" \in DOMAIN idict_ THEN "ok" ELSE InstrumentGetattr(idict_, "_resource")
        s1 == IF a1 = "ok" THEN <<Call("_resource", "close", <<>>)>> ELSE <<>>
        e1 == IF a1 # "ok" THEN a1 ELSE IF resRaises THEN "VisaIOError" ELSE "ok"
        a2 == IF "_rm" \in DOMAIN idict_ THEN "ok" ELSE InstrumentGetattr(idict_, "_rm")
        s2 == IF a2 = "ok" THEN <<Call("_rm", "close", <<>>)>> ELSE <<>>
        e2 == IF a2 # "ok" THEN a2 ELSE IF rmRaises THEN "VisaIOError" ELSE "ok"
    IN IF e1 # "ok" /\ ~ExceptException(e1) THEN Out(e1, <<>>, s1, idict_, NoneV)
       ELSE IF e2 # "ok" /\ ~ExceptException(e2) THEN Out(e2, <<>>, s1 \o s2, idict_, NoneV)
       ELSE Out("ok", <<>>, s1 \o s2, idict_, NoneV)


(* ------------------------------- inputs -------------------------------- *)

\* the values callers pass
Values == {StrV("DC"), IntV(2)}

\* what the stub transport answers to a query
Responses == {StrV("1")}

\* the objects the callers of the model act on: the instrument, every
\* channel, the last math block and the first FFT block
Targets ==
    {Inst} \cup {id \in SubIds : \/ id.cls = "Channel"
                                 \/ id.cls = "Math" /\ id.idx = NumMath - 1
                                 \/ id.cls = "FFT" /\ id.idx = 0}

\* the attribute names the callers use, per class: descriptors, names no
\* class declares (foo), the suffix, and a method of the resource
AttrKeys(cls) ==
    CASE cls = "RTO6" -> {"identity", "format", "foo", "query_binary_values"}
      [] cls = "Channel" -> {"status", "coupling", "suffix"}
      [] cls = "Math" -> {"status", "foo"}
      [] cls = "FFT" -> {"type", "foo"}

\* **kwargs: an ordered dict, so no key twice
KwArgs(cls) ==
    LET pairs == [key : AttrKeys(cls), value : Values]
        seqs == UNION {[1 .. n -> pairs] : n \in 0 .. MaxKw}
    IN {k \in seqs : \A i, j \in DOMAIN k : i # j => k[i].key # k[j].key}

(* ------------------------------- state --------------------------------- *)

\* the record of the operation that ran last: its name, target, keyword
\* or positional inputs, how it ended, the calls it made on the resource
\* and the resource manager, what it returned, and the target's __dict__
\* before it ran
Op(op, tgt, kw, inp, o, pre) ==
    [op |-> op, tgt |-> tgt, kw |-> kw, inp |-> inp, res |-> o.res,
     emsg |-> o.emsg, sent |-> o.sent, ret |-> o.ret, pre |-> pre]

D(tgt) == IF tgt = Inst THEN idict ELSE sub[tgt]

Store(tgt, d) ==
    IF tgt = Inst
    THEN idict' = d /\ UNCHANGED sub
    ELSE sub' = [sub EXCEPT ![tgt] = d] /\ UNCHANGED idict

Init ==
    /\ phase = "new"
    /\ idict = <<>>
    /\ sub = <<>>
    /\ last = Op("none", Inst, <<>>, <<>>, Out("ok", <<>>, <<>>, <<>>, NoneV), <<>>)
    /\ nops = 0

\* RTO6(resource_name)
Construct ==
    /\ phase = "new"
    /\ \E rmOpens \in BOOLEAN, resOpens \in BOOLEAN :
          LET r == RTO6Init(rmOpens, resOpens)
          IN /\ phase' = IF r.o.res = "ok" THEN "built" ELSE "failed"
             /\ idict' = r.o.d
             /\ sub' = r.subs
             /\ last' = Op("init", Inst, <<>>, <<rmOpens, resOpens>>, r.o, <<>>)
    /\ UNCHANGED nops

\* obj.key = value
Assign ==
    /\ phase = "built" /\ nops < MaxOps
    /\ \E tgt \in Targets : \E key \in AttrKeys(tgt.cls), value \in Values :
          LET o == Setattr(tgt, D(tgt), idict, key, value)
          IN /\ Store(tgt, o.d)
             /\ last' = Op("assign", tgt, <<Kw(key, value)>>, <<>>, o, D(tgt))
    /\ nops' = nops + 1
    /\ UNCHANGED phase

\* obj.key
Read ==
    /\ phase = "built" /\ nops < MaxOps
    /\ \E tgt \in Targets : \E key \in AttrKeys(tgt.cls), resp \in Responses :
          LET o == Getattr(tgt, D(tgt), idict, key, resp)
          IN last' = Op("read", tgt, <<Kw(key, NoneV)>>, <<resp>>, o, D(tgt))
    /\ nops' = nops + 1
    /\ UNCHANGED <<phase, idict, sub>>

\* obj.setup(**kwargs)
CallSetup ==
    /\ phase = "built" /\ nops < MaxOps
    /\ \E tgt \in Targets : \E kwargs \in KwArgs(tgt.cls) :
          LET o == Setup(tgt, D(tgt), idict, kwargs)
          IN /\ Store(tgt, o.d)
             /\ last' = Op("setup", tgt, kwargs, <<>>, o, D(tgt))
    /\ nops' = nops + 1
    /\ UNCHANGED phase

\* instrument.close()
Close ==
    /\ phase = "built"
    /\ \E resRaises \in BOOLEAN, rmRaises \in BOOLEAN :
          LET o == InstrumentClose(idict, resRaises, rmRaises)
          IN last' = Op("close", Inst, <<>>, <<resRaises, rmRaises>>, o, idict)
    /\ phase' = "closed"
    /\ UNCHANGED <<idict, sub, nops>>

\* Instrument.__exit__ at the end of a with block: self.close()
Exit ==
    /\ phase = "built"
    /\ \E resRaises \in BOOLEAN, rmRaises \in BOOLEAN :
          LET o == InstrumentClose(idict, resRaises, rmRaises)
          IN last' = Op("__exit__", Inst, <<>>, <<resRaises, rmRaises>>, o, idict)
    /\ phase' = "closed"
    /\ UNCHANGED <<idict, sub, nops>>

Next == Construct \/ Assign \/ Read \/ CallSetup \/ Close \/ Exit

Spec == Init /\ [][Next]_vars



(* ----------------------------- properties ------------------------------ *)

\* the resource was opened at construction
Connected(d) == "_resource" \in DOMAIN d

\* the commands of the instrument's manual, without marker and value
Stem(cls, key, suffix) ==
    CASE cls = "RTO6" /\ key = "identity" -> <<"*IDN">>
      [] cls = "RTO6" /\ key = "format" -> <<"FORM">>
      [] cls = "Channel" /\ key = "status" -> <<"CHAN", Str(suffix), ":STAT">>
      [] cls = "Channel" /\ key = "coupling" -> <<"CHAN", Str(suffix), ":COUP">>
      [] cls = "Math" /\ key = "status" -> <<"CALC:MATH", Str(suffix), ":STAT">>
      [] cls = "FFT" /\ key = "type" -> <<"CALC:MATH", Str(suffix), ":FFT:TYPE">>

SuffixOf(tgt, d) == IF tgt = Inst THEN NoneV ELSE d.suffix

QueryOf(tgt, key, d) ==
    Call("_resource", "query", Stem(tgt.cls, key, SuffixOf(tgt, d)) \o <<"?">>)

WriteOf(tgt, key, d, value) ==
    Call("_resource", "write", Stem(tgt.cls, key, SuffixOf(tgt, d)) \o <<" ", Str(value)>>)

IsClose == last.op \in {"close", "__exit__"}

C2_CallerStatusWins ==
    (/\ last.op = "setup"
     /\ last.tgt.cls \in {"Channel", "Math"}
     /\ Connected(idict)
     /\ \E i \in DOMAIN last.kw : last.kw[i].key = "status")
    => LET i == CHOOSE j \in DOMAIN last.kw : last.kw[j].key = "status"
           st == SelectSeq(last.sent,
                           LAMBDA c : c.op = "write" /\ c.msg[Len(c.msg) - 2] = ":STAT")
       IN /\ last.res = "ok"
          /\ st # <<>>
          /\ st[Len(st)] = WriteOf(last.tgt, "status", last.pre, last.kw[i].value)

\* C3: on a freshly built RTO6 with its resource open, channel[i].setup(
\* coupling=v) sends exactly the two writes CHAN<i+1>:STAT ON and
\* CHAN<i+1>:COUP v, in this order
C3_ChannelSetupTwoWrites ==
    (/\ last.op = "setup"
     /\ last.tgt.cls = "Channel"
     /\ Connected(idict)
     /\ last.pre.suffix = IntV(last.tgt.idx + 1)
     /\ Len(last.kw) = 1 /\ last.kw[1].key = "coupling")
    => /\ last.res = "ok"
       /\ last.sent =
            <<Call("_resource", "write",
                   <<"CHAN", ToString(last.tgt.idx + 1), ":STAT", " ", "ON">>),
              Call("_resource", "write",
                   <<"CHAN", ToString(last.tgt.idx + 1), ":COUP", " ", Str(last.kw[1].value)>>)>>

C3_Witness ==
    /\ last.op = "setup"
    /\ last.tgt = [cls |-> "Channel", idx |-> NumChannels - 1]
    /\ Connected(idict)
    /\ last.pre.suffix = IntV(NumChannels)
    /\ last.kw = <<Kw("coupling", StrV("DC"))>>
    /\ Len(last.sent) = 2

\* a member the Instrument declares: descriptor, method or instance attribute
Declared(key, d) ==
    key \in DOMAIN Props(Inst.cls) \/ key \in InstrumentMethods \/ key \in DOMAIN d

InvalidAttribute(key) ==
    /\ last.res = "AttributeError"
    /\ last.emsg = <<key, " is not a valid attribute of ", "RTO6">>
    /\ idict = last.pre
    /\ last.sent = <<>>

\* C4 as stated, on an instrument whose resource is open: Instrument.setup(
\* key=v) with key no declared member fails with an attribute error naming
\* key and class, sets and writes nothing
C4_UndeclaredKeyRejected ==
    (/\ last.op = "setup" /\ last.tgt = Inst
     /\ last.kw # <<>>
     /\ ~Declared(last.kw[1].key, last.pre)
     /\ Connected(last.pre))
    => InvalidAttribute(last.kw[1].key)

\* C4 amended: the same, for a key that the opened resource does not
\* expose either
C4_UnknownKeyRejected ==
    (/\ last.op = "setup" /\ last.tgt = Inst
     /\ last.kw # <<>>
     /\ ~Declared(last.kw[1].key, last.pre)
     /\ Connected(last.pre)
     /\ last.kw[1].key \notin ResourceCallables)
    => InvalidAttribute(last.kw[1].key)

C4_Witness ==
    /\ last.op = "setup" /\ last.tgt = Inst
    /\ last.kw = <<Kw("foo", IntV(2))>>
    /\ Connected(last.pre)
    /\ last.res = "AttributeError"

\* C5: Instrument.setup(identity=x) does not complete normally
C5_IdentityReadOnly ==
    (/\ last.op = "setup" /\ last.tgt = Inst
     /\ Len(last.kw) = 1 /\ last.kw[1].key = "identity")
    => last.res # "ok"

\* C6: a read of a descriptor sends one query, rendered with the suffix
\* the accessing instance holds at the time of the read
C6_ReadRendersCurrentValues ==
    (/\ last.op = "read"
     /\ last.kw[1].key \in DOMAIN Props(last.tgt.cls)
     /\ Connected(idict))
    => /\ last.res = "ok"
       /\ last.sent = <<QueryOf(last.tgt, last.kw[1].key, D(last.tgt))>>

C6_Witness ==
    /\ last.op = "read"
    /\ last.tgt.cls = "Channel"
    /\ last.kw[1].key = "coupling"
    /\ Connected(idict)
    /\ D(last.tgt).suffix = StrV("DC")
    /\ last.sent = <<Call("_resource", "query", <<"CHAN", "DC", ":COUP", "?">>)>>

\* C7: an assignment to a descriptor attribute makes exactly one call on
\* the transport, a write of the rendered write template, a space and
\* the string form of the value
C7_AssignIsOneWrite ==
    (/\ last.op = "assign"
     /\ last.kw[1].key \in DOMAIN Props(last.tgt.cls)
     /\ Connected(idict))
    => /\ last.res = "ok"
       /\ last.sent = <<WriteOf(last.tgt, last.kw[1].key, last.pre, last.kw[1].value)>>
       /\ D(last.tgt) = last.pre

C7_Witness ==
    /\ last.op = "assign"
    /\ last.tgt.cls = "Math"
    /\ last.kw = <<Kw("status", IntV(2))>>
    /\ Connected(idict)
    /\ last.sent = <<Call("_resource", "write", <<"CALC:MATH", "8", ":STAT", " ", "2">>)>>

\* the keywords of the last call that no descriptor of the class backs
PlainOnly == \A i \in DOMAIN last.kw : last.kw[i].key \notin DOMAIN Props(last.tgt.cls)

\* every keyword is now an instance attribute that reads back, without
\* traffic, as the value passed
ReadsBack ==
    \A i \in DOMAIN last.kw :
        /\ last.kw[i].key \in DOMAIN sub[last.tgt]
        /\ \A resp \in Responses :
              LET o == Getattr(last.tgt, sub[last.tgt], idict, last.kw[i].key, resp)
              IN o.res = "ok" /\ o.ret = last.kw[i].value /\ o.sent = <<>>

\* C8: SubSystem.setup(key=v) with key backed by no descriptor of the
\* class returns normally, sends nothing for key and leaves an attribute
\* that reads back as v (FFT inherits the setup; Math runs it after its
\* status default, whose write is the only message)
C8_SubSystemSetupPlainAttribute ==
    (/\ last.op = "setup" /\ last.tgt \in SubIds
     /\ last.kw # <<>>
     /\ PlainOnly)
    => /\ last.tgt.cls = "FFT"
          => last.res = "ok" /\ last.sent = <<>> /\ ReadsBack
       /\ (last.tgt.cls = "Math" /\ Connected(idict))
          => /\ last.res = "ok"
             /\ last.sent = <<WriteOf(last.tgt, "status", last.pre, StrV("ON"))>>
             /\ ReadsBack

C8_Witness ==
    /\ last.op = "setup"
    /\ last.tgt.cls = "FFT"
    /\ last.kw = <<Kw("foo", IntV(2))>>
    /\ last.res = "ok"
    /\ sub[last.tgt].foo = IntV(2)

\* C9: construction completes whether or not the resource manager and
\* the resource open, and the RTO6 has its 4 channels, 8 math blocks and
\* 8 FFT blocks with suffixes 1, 2, ...
C9_ConstructionNeverRaises ==
    /\ phase # "failed"
    /\ last.op = "init" =>
          /\ last.res = "ok"
          /\ DOMAIN sub = SubIds
          /\ Cardinality({id \in DOMAIN sub : id.cls = "Channel"}) = 4
          /\ Cardinality({id \in DOMAIN sub : id.cls = "Math"}) = 8
          /\ Cardinality({id \in DOMAIN sub : id.cls = "FFT"}) = 8
          /\ \A id \in DOMAIN sub : sub[id].suffix = IntV(id.idx + 1)
          /\ idict.label = StrV("RTO6")
          /\ (last.inp[1] /\ last.inp[2]) <=> Connected(idict)

C9_Witness ==
    /\ last.op = "init"
    /\ last.inp[1] = FALSE
    /\ "_rm" \notin DOMAIN idict /\ ~Connected(idict)
    /\ DOMAIN sub = SubIds

\* C10: Instrument.setup(k=v) for a descriptor k sends the query of k and
\* then the write of k with v; no setup of the instrument sends a write
\* that the query of the same command does not directly precede
C10_SetupQueriesBeforeWrite ==
    (last.op = "setup" /\ last.tgt = Inst) =>
        /\ (/\ Len(last.kw) = 1
            /\ last.kw[1].key \in DOMAIN Props(Inst.cls)
            /\ Connected(last.pre))
           => /\ last.res = "ok"
              /\ last.sent = <<QueryOf(Inst, last.kw[1].key, last.pre),
                               WriteOf(Inst, last.kw[1].key, last.pre, last.kw[1].value)>>
        /\ \A i \in DOMAIN last.sent :
              last.sent[i].op = "write" =>
                  /\ i > 1
                  /\ last.sent[i - 1].op = "query"
                  /\ last.sent[i - 1].msg =
                        SubSeq(last.sent[i].msg, 1, Len(last.sent[i].msg) - 2) \o <<"?">>

C10_Witness ==
    /\ last.op = "setup" /\ last.tgt = Inst
    /\ last.kw = <<Kw("format", StrV("DC"))>>
    /\ last.sent = <<Call("_resource", "query", <<"FORM", "?">>),
                     Call("_resource", "write", <<"FORM", " ", "DC">>)>>

=============================================================================
